---- MODULE Spec2Model ----
(***************************************************************************)
(* Model of the three React views of json50841/stockbacktest:              *)
(*   "chart"   src/unnamed/part_000          candlestick + volume (OHLCV)  *)
(*   "tradesA" src/backtest-viewer/src/App.js  trade ledger, 2 decimals    *)
(*   "tradesB" src/unnamed/part_001          trade ledger, 6 decimals      *)
(* Texts are tuples of one-character strings.  A JavaScript number is a    *)
(* record [nan, v]: v counts units of 1/Scale (decimal fixed point).       *)
(***************************************************************************)
EXTENDS Integers, Sequences, FiniteSets, TLC

\* ------------------------------------------------------------------ bounds
MaxBarRows == 3
MaxTradeRows == 3
MaxBars == 200

\* ------------------------------------------------------- JavaScript numbers
Scale == 10000000
NaN == [nan |-> TRUE, v |-> 0]
Num(n) == [nan |-> FALSE, v |-> n]
isNaN(x) == x.nan

Pow10(k) == IF k = 0 THEN 1 ELSE IF k = 1 THEN 10 ELSE IF k = 2 THEN 100
            ELSE IF k = 3 THEN 1000 ELSE IF k = 4 THEN 10000
            ELSE IF k = 5 THEN 100000 ELSE IF k = 6 THEN 1000000 ELSE 10000000

\* variant of NumAdd that skips a NaN operand
NumAdd_NaNAsZero(a, b) == IF a.nan THEN b ELSE IF b.nan THEN a ELSE Num(a.v + b.v)
\* cumulative += t.pnl : NaN is absorbing
NumAdd(a, b) == IF a.nan \/ b.nan THEN NaN ELSE Num(a.v + b.v)

\* variant of NumGtZero that tests t.pnl >= 0
NumGtZero_Ge(a) == ~a.nan /\ a.v >= 0
\* t.pnl > 0 : every comparison with NaN is false
NumGtZero(a) == ~a.nan /\ a.v > 0

\* wins / trades.length on two array lengths: 0/0 is NaN
NumDivLen(a, b) == IF b = 0 THEN NaN ELSE Num((a * Scale) \div b)
NumTimes100(a) == IF a.nan THEN NaN ELSE Num(a.v * 100)

\* x.toFixed(d): the decimal string of x with d fraction digits, here the
\* signed count of 10^-d units it spells; ties round away from zero.  The
\* value rounded is the decimal value v/Scale (binary representation error of
\* the double is not modelled).
RoundUnits(a, m) == IF 2 * (a % m) >= m THEN (a \div m) + 1 ELSE a \div m
toFixed(x, d) ==
    IF x.nan THEN [nan |-> TRUE, units |-> 0]
    ELSE LET m == Pow10(7 - d) IN
         [nan |-> FALSE,
          units |-> IF x.v >= 0 THEN RoundUnits(x.v, m) ELSE -RoundUnits(-x.v, m)]
\* Number(s) of a string produced by toFixed(d)
NumberOfFixed(f, d) == IF f.nan THEN NaN ELSE Num(f.units * Pow10(7 - d))

\* ------------------------------------------------------------- text parsing
Digit == {"0", "1", "2", "3", "4", "5", "6", "7", "8", "9"}
DigitVal(c) == CASE c = "0" -> 0 [] c = "1" -> 1 [] c = "2" -> 2 [] c = "3" -> 3
                 [] c = "4" -> 4 [] c = "5" -> 5 [] c = "6" -> 6 [] c = "7" -> 7
                 [] c = "8" -> 8 [] c = "9" -> 9
WhiteSpace == {" "}

RECURSIVE TrimLeft(_)
TrimLeft(s) == IF s # <<>> /\ Head(s) \in WhiteSpace THEN TrimLeft(Tail(s)) ELSE s
RECURSIVE TrimRight(_)
TrimRight(s) == IF s # <<>> /\ s[Len(s)] \in WhiteSpace
                THEN TrimRight(SubSeq(s, 1, Len(s) - 1)) ELSE s

\* number of consecutive decimal digits of s starting at position i
RECURSIVE DigitRun(_, _)
DigitRun(s, i) == IF i <= Len(s) /\ s[i] \in Digit THEN 1 + DigitRun(s, i + 1) ELSE 0

\* value of the digits s[i .. i+n-1] read as an integer
RECURSIVE DigitsValue(_, _, _)
DigitsValue(s, i, n) == IF n = 0 THEN 0
                        ELSE DigitsValue(s, i, n - 1) * 10 + DigitVal(s[i + n - 1])

\* value, in 1/Scale units, of the fraction digits s[i .. i+n-1]
RECURSIVE FracValue(_, _, _)
FracValue(s, i, n) == IF n = 0 THEN 0
                      ELSE IF n > 7 THEN FracValue(s, i, 7)
                      ELSE FracValue(s, i, n - 1) + DigitVal(s[i + n - 1]) * Pow10(7 - n)

SignLen(s) == IF s # <<>> /\ s[1] \in {"-", "+"} THEN 1 ELSE 0
SignOf(s) == IF s # <<>> /\ s[1] = "-" THEN -1 ELSE 1

\* the longest prefix of s that is a StrDecimalLiteral: [+-] digits [. digits]
\* or [+-] . digits; its length, int digits, fraction digits (len 0: none)
DecimalPrefix(s) ==
    LET sg == SignLen(s)
        ni == DigitRun(s, sg + 1)
        dot == sg + ni + 1 <= Len(s) /\ s[sg + ni + 1] = "."
        nf == IF dot THEN DigitRun(s, sg + ni + 2) ELSE 0
    IN  IF ni = 0 /\ nf = 0 THEN [len |-> 0, sg |-> sg, ni |-> 0, nf |-> 0]
        ELSE IF dot THEN [len |-> sg + ni + 1 + nf, sg |-> sg, ni |-> ni, nf |-> nf]
        ELSE [len |-> sg + ni, sg |-> sg, ni |-> ni, nf |-> 0]

DecimalValue(s, p) ==
    Num(SignOf(s) * (DigitsValue(s, p.sg + 1, p.ni) * Scale
                     + FracValue(s, p.sg + p.ni + 2, p.nf)))

\* parseFloat(text): skips leading white space, converts the longest numeric
\* prefix, NaN when there is none
parseFloat(text) ==
    LET s == TrimLeft(text)
        p == DecimalPrefix(s)
    IN  IF p.len = 0 THEN NaN ELSE DecimalValue(s, p)

\* parseInt(text, 10): skips leading white space, a sign, then the longest
\* run of decimal digits; NaN when there is none
parseInt(text) ==
    LET s == TrimLeft(text)
        sg == SignLen(s)
        ni == DigitRun(s, sg + 1)
    IN  IF ni = 0 THEN NaN ELSE Num(SignOf(s) * DigitsValue(s, sg + 1, ni) * Scale)

\* Number(text): the whole trimmed text must be a numeric literal; the empty
\* (or all-blank) text is 0
Number(text) ==
    LET s == TrimRight(TrimLeft(text))
        p == DecimalPrefix(s)
    IN  IF s = <<>> THEN Num(0)
        ELSE IF p.len = 0 \/ p.len # Len(s) THEN NaN
        ELSE DecimalValue(s, p)

\* ------------------------------------------------------------------- dates
\* The JavaScript engine that runs the bundle: the ECMAScript date-time
\* format rejects a day the month does not have; V8 falls back to its legacy
\* parser, which accepts days up to 31 in every month and rolls them over.
Engines == {"strict", "rollover"}

IsLeap(y) == (y % 4 = 0 /\ y % 100 # 0) \/ y % 400 = 0
DaysInMonth(y, m) == CASE m \in {1, 3, 5, 7, 8, 10, 12} -> 31
                       [] m \in {4, 6, 9, 11} -> 30
                       [] OTHER -> IF IsLeap(y) THEN 29 ELSE 28
RECURSIVE DaysBeforeMonth(_, _)
DaysBeforeMonth(y, m) == IF m = 1 THEN 0
                         ELSE DaysBeforeMonth(y, m - 1) + DaysInMonth(y, m - 1)
DaysBeforeYear(y) == 365 * y + ((y + 3) \div 4) - ((y + 99) \div 100) + ((y + 399) \div 400)
\* time value of a calendar day, in days
DayNumber(y, m, d) == DaysBeforeYear(y) + DaysBeforeMonth(y, m) + d

\* the text has the shape YYYY-MM-DD
IsIsoDateShape(s) ==
    /\ Len(s) = 10
    /\ \A i \in {1, 2, 3, 4, 6, 7, 9, 10} : s[i] \in Digit
    /\ s[5] = "-" /\ s[8] = "-"

\* new Date(text).getTime(), in days, for texts that are either of the shape
\* YYYY-MM-DD or not a date in any format (formats other than YYYY-MM-DD that
\* engines also accept are outside the texts drawn here)
DateTime(engine, s) ==
    IF ~IsIsoDateShape(s) THEN NaN
    ELSE LET y == DigitsValue(s, 1, 4)
             m == DigitsValue(s, 6, 2)
             d == DigitsValue(s, 9, 2)
         IN  IF m < 1 \/ m > 12 \/ d < 1 \/ d > 31 THEN NaN
             ELSE IF d > DaysInMonth(y, m) /\ engine = "strict" THEN NaN
             ELSE Num(DayNumber(y, m, d))

\* ---------------------------------------------------------------- parseCSV
\* d.X ? ... : ... -- a string is truthy exactly when it is non-empty
Truthy(text) == text # <<>>

\* the record built by the .map callback of parseCSV; date is null
\* (isDate FALSE) when the Date field is empty
ToBar(engine, d) ==
    [date   |-> IF Truthy(d.Date) THEN [isDate |-> TRUE, time |-> DateTime(engine, d.Date)]
                ELSE [isDate |-> FALSE, time |-> NaN],
     open   |-> IF Truthy(d.Open) THEN parseFloat(d.Open) ELSE NaN,
     high   |-> IF Truthy(d.High) THEN parseFloat(d.High) ELSE NaN,
     low    |-> IF Truthy(d.Low) THEN parseFloat(d.Low) ELSE NaN,
     close  |-> IF Truthy(d.Close) THEN parseFloat(d.Close) ELSE NaN,
     volume |-> IF Truthy(d.Volume) THEN parseInt(d.Volume) ELSE NaN]

\* variant of KeepBar without the volume test
KeepBar_NoVolumeCheck(r) ==
    /\ r.date.isDate /\ ~isNaN(r.date.time)
    /\ ~isNaN(r.open) /\ ~isNaN(r.high) /\ ~isNaN(r.low) /\ ~isNaN(r.close)
\* the .filter callback of parseCSV
KeepBar(r) ==
    /\ r.date.isDate /\ ~isNaN(r.date.time)
    /\ ~isNaN(r.open) /\ ~isNaN(r.high) /\ ~isNaN(r.low) /\ ~isNaN(r.close)
    /\ ~isNaN(r.volume)

MapSeq(f(_), s) == [i \in 1..Len(s) |-> f(s[i])]

\* the comparator (a, b) => a.date - b.date
byDate(a, b) == a.date.time.v - b.date.time.v

\* raw.sort(byDate): Array.prototype.sort is a stable merge sort.
\* variant of CountBefore that also takes the records tied with a
CountBefore_TiesToo(B, a) == Cardinality({j \in 1..Len(B) : byDate(B[j], a) <= 0})
\* number of records of the sorted right run B that go before record a of
\* the left run: those the comparator puts strictly before it
CountBefore(B, a) == Cardinality({j \in 1..Len(B) : byDate(B[j], a) < 0})

\* merge of the sorted runs A (earlier in the input) and B
RECURSIVE Merge(_, _)
Merge(A, B) ==
    IF A = <<>> THEN B
    ELSE IF B = <<>> THEN A
    ELSE LET m == (Len(A) + 1) \div 2
             k == CountBefore(B, A[m])
         IN  Merge(SubSeq(A, 1, m - 1), SubSeq(B, 1, k)) \o <<A[m]>>
               \o Merge(SubSeq(A, m + 1, Len(A)), SubSeq(B, k + 1, Len(B)))

RECURSIVE SortByDate(_)
SortByDate(raw) ==
    IF Len(raw) <= 1 THEN raw
    ELSE LET h == Len(raw) \div 2
         IN  Merge(SortByDate(SubSeq(raw, 1, h)), SortByDate(SubSeq(raw, h + 1, Len(raw))))

parseCSV(engine, rows) ==
    LET bar(d) == ToBar(engine, d)
    IN  SortByDate(SelectSeq(MapSeq(bar, rows), KeepBar))

\* ------------------------------------------------------------- trade views
Views == {"chart", "tradesA", "tradesB"}
TradeViews == {"tradesA", "tradesB"}

\* digits kept by Number(cumulative.toFixed(..)) in each trade view
EquityDigitsA == 2
EquityDigitsB == 6
EquityDigits(v) == IF v = "tradesA" THEN EquityDigitsA ELSE EquityDigitsB
\* digits of the totalPnL shown in the summary
TotalDigitsA == 2
TotalDigitsB == 4
TotalDigits(v) == IF v = "tradesA" THEN TotalDigitsA ELSE TotalDigitsB
WinRateDigits == 2

TrueText == <<"T", "r", "u", "e">>

\* the record built by parsed.data.map in each trade view
ToTrade(v, r) ==
    IF v = "tradesA"
    THEN [entryDate |-> r.EntryDate, exitDate |-> r.ExitDate,
          direction |-> r.Direction, shares |-> Number(r.Shares),
          entryPrice |-> Number(r.EntryPrice), exitPrice |-> Number(r.ExitPrice),
          pnl |-> Number(r.PnL), recovery |-> (r.RecoveryMode = TrueText)]
    ELSE [entryDate |-> r.EntryDate, exitDate |-> r.ExitDate,
          entryPrice |-> Number(r.EntryPrice), exitPrice |-> Number(r.ExitPrice),
          pnl |-> Number(r.PnL)]

TradeRows(v, raw) == [i \in 1..Len(raw) |-> ToTrade(v, raw[i])]

\* value of `cumulative` after the callback of rows.map has run on rows[1..i]
RECURSIVE Cumulative(_, _)
Cumulative(rows, i) ==
    IF i = 0 THEN Num(0) ELSE NumAdd(Cumulative(rows, i - 1), rows[i].pnl)

\* variant of the scan that carries the rounded value, not the running sum
RECURSIVE RoundedCarry(_, _, _)
RoundedCarry(rows, i, d) ==
    IF i = 0 THEN Num(0)
    ELSE NumberOfFixed(toFixed(NumAdd(RoundedCarry(rows, i - 1, d), rows[i].pnl), d), d)
EquityRows_RoundedCarry(rows, d) ==
    [i \in 1..Len(rows) |->
        [date |-> rows[i].entryDate, pnl |-> rows[i].pnl,
         equity |-> RoundedCarry(rows, i, d)]]

\* const equityRows = rows.map(...)
EquityRows(rows, d) ==
    [i \in 1..Len(rows) |->
        [date |-> rows[i].entryDate, pnl |-> rows[i].pnl,
         equity |-> NumberOfFixed(toFixed(Cumulative(rows, i), d), d)]]

\* trades.filter((t) => t.pnl > 0).length
IsWin(t) == NumGtZero(t.pnl)
WinCount(ts) == Len(SelectSeq(ts, IsWin))

\* ((wins / trades.length) * 100).toFixed(2), in hundredths of a percent
winRate(ts) == toFixed(NumTimes100(NumDivLen(WinCount(ts), Len(ts))), WinRateDigits)

\* equity[equity.length - 1].equity.toFixed(..)
totalPnL(v, eq) == toFixed(eq[Len(eq)].equity, TotalDigits(v))

\* -------------------------------------------------------------- chart view
DisplayCount == 150
InitialWidth == 800

Min(a, b) == IF a <= b THEN a ELSE b
Max(a, b) == IF a >= b THEN a ELSE b

\* discontinuousTimeScaleProvider: chartData is data with an index attached,
\* and xAccessor reads that index
xScaleProvider(dat) == [i \in 1..Len(dat) |-> [index |-> i - 1, bar |-> dat[i]]]
xAccessor(d) == d.index

\* variant of displayCount one bar short
displayCount_OneShort(n) == Min(DisplayCount - 1, n)
\* Math.min(150, chartData.length), Math.max(0, chartData.length - displayCount)
displayCount(n) == Min(DisplayCount, n)
startIndex(n) == Max(0, n - displayCount(n))
\* chartData[k] of the source is chartData[k + 1] here
xExtents(chartData) ==
    LET n == Len(chartData)
    IN  <<xAccessor(chartData[startIndex(n) + 1]), xAccessor(chartData[n - 1 + 1])>>

\* ------------------------------------------------------------------ inputs
\* Papa.parse(text, {header: true, skipEmptyLines: true}).data: one record of
\* field texts per non-empty line of the fetched document.
D1 == <<"2", "0", "2", "4", "-", "0", "1", "-", "0", "1">>
D2 == <<"2", "0", "2", "4", "-", "0", "1", "-", "0", "2">>
Feb30 == <<"2", "0", "2", "4", "-", "0", "2", "-", "3", "0">>
Junk == <<"a", "b", "c">>
T1p5 == <<"1", ".", "5">>
T2 == <<"2">>
T12abc == <<"1", "2", "a", "b", "c">>
T100 == <<"1", "0", "0">>

GoodBar == [Date |-> D1, Open |-> T1p5, High |-> T2, Low |-> T1p5, Close |-> T2, Volume |-> T100]
GoodBars == {GoodBar, [GoodBar EXCEPT !.Close = T1p5], [GoodBar EXCEPT !.Date = D2]}
BadBars ==
    {[GoodBar EXCEPT !.Date = t] : t \in {Junk, Feb30}}
    \cup {[GoodBar EXCEPT !.High = Junk], [GoodBar EXCEPT !.Low = T12abc]}
    \cup {[GoodBar EXCEPT !.Volume = t] : t \in {<<>>, T1p5}}
BarRowSamples == GoodBars \cup BadBars

SeqsUpTo(S, n) == UNION {[1..k -> S] : k \in 0..n}
BarDocs == SeqsUpTo(BarRowSamples, MaxBarRows)

PnlTexts == {<<"1", "0">>, <<"-", "3">>, <<"5">>, <<"-", "1">>, <<>>, <<" ">>, Junk,
             <<"0", ".", "0", "0", "0", "0", "0", "0", "4">>}
\* pnl 10, -3, 5, -1
ExamplePnl == <<(<<"1", "0">>), (<<"-", "3">>), (<<"5">>), (<<"-", "1">>)>>
DigitChar(n) == CASE n = 0 -> "0" [] n = 1 -> "1" [] n = 2 -> "2" [] n = 3 -> "3"
                  [] n = 4 -> "4" [] n = 5 -> "5" [] n = 6 -> "6" [] n = 7 -> "7"
                  [] n = 8 -> "8" [] n = 9 -> "9"
TradeRow(i, p) ==
    [EntryDate |-> <<"d", DigitChar(i)>>, ExitDate |-> <<"e", DigitChar(i)>>,
     Direction |-> <<"L", "O", "N", "G">>, Shares |-> T100,
     EntryPrice |-> T1p5, ExitPrice |-> T2, PnL |-> p, RecoveryMode |-> TrueText]
TradeDocs == {[i \in 1..Len(ps) |-> TradeRow(i, ps[i])] :
                ps \in SeqsUpTo(PnlTexts, MaxTradeRows) \cup {ExamplePnl}}

\* a document of n well-formed bars on the n days from 2024-01-01, latest first
RECURSIVE MonthOfDay(_, _)
MonthOfDay(k, m) == IF k < DaysBeforeMonth(2024, m + 1) THEN m ELSE MonthOfDay(k, m + 1)
TwoDigits(n) == <<DigitChar(n \div 10), DigitChar(n % 10)>>
DayText(k) == LET m == MonthOfDay(k, 1)
              IN  <<"2", "0", "2", "4", "-">> \o TwoDigits(m) \o <<"-">>
                    \o TwoDigits(k - DaysBeforeMonth(2024, m) + 1)
LongDoc(n) == [i \in 1..n |-> [GoodBar EXCEPT !.Date = DayText(n - i)]]

\* ------------------------------------------------------------------- state
VARIABLES
    view,      \* which of the three App components this is
    engine,    \* the JavaScript engine's date parser
    pc,        \* position of the load effect's promise chain
    mounted,   \* the component is mounted
    doc,       \* rows of the fetched document, once read
    data,      \* useState([]) of the chart view
    trades,    \* useState([]) of the trade views
    equity,    \* useState([]) of the trade views
    width,     \* useState(800) of the chart view
    fetches,   \* number of fetch(CSV_URL) calls issued
    errors     \* number of console.error calls

vars == <<view, engine, pc, mounted, doc, data, trades, equity,
          width, fetches, errors>>

\* ------------------------------------------------------------------ render
\* what the component function returns for the current state
RenderGuard(v, dat, trs, eq) == IF v = "chart" THEN dat = <<>> ELSE eq = <<>>

Render(v, dat, trs, eq, w) ==
    IF RenderGuard(v, dat, trs, eq) THEN [kind |-> "loading"]
    ELSE IF v = "chart"
         THEN [kind |-> "chart", width |-> w, xExtents |-> xExtents(xScaleProvider(dat))]
         ELSE [kind |-> "summary", totalTrades |-> Len(trs),
               totalPnL |-> totalPnL(v, eq), winRate |-> winRate(trs)]

Screen == IF mounted THEN Render(view, data, trades, equity, width)
          ELSE [kind |-> "none"]

\* ----------------------------------------------------------------- actions
Init ==
    /\ view \in Views
    /\ engine \in (IF view = "chart" THEN Engines ELSE {"strict"})
    /\ pc = "idle"
    /\ mounted = FALSE
    /\ doc = <<>>
    /\ data = <<>> /\ trades = <<>> /\ equity = <<>>
    /\ width = InitialWidth
    /\ fetches = 0 /\ errors = 0

\* first commit: both effects run; handleResize() finds wrapperRef.current
\* null (the loading div carries no ref), fetch(CSV_URL) is issued
Mount ==
    /\ pc = "idle" /\ ~mounted
    /\ mounted' = TRUE
    /\ fetches' = fetches + 1
    /\ pc' = "fetching"
    /\ UNCHANGED <<view, engine, doc, data, trades, equity, width, errors>>

\* the component is torn down.  No load effect returns a cleanup, so the
\* promise chain goes on as before.  The two setters of one callback run in
\* one task, so no teardown falls between them.
Unmount ==
    /\ mounted /\ pc # "settingEquity"
    /\ mounted' = FALSE
    /\ UNCHANGED <<view, engine, pc, doc, data, trades, equity, width,
                   fetches, errors>>

\* fetch resolved: .then((res) => res.text())
FetchResolve ==
    /\ pc = "fetching"
    /\ pc' = "reading"
    /\ UNCHANGED <<view, engine, mounted, doc, data, trades, equity,
                   width, fetches, errors>>

\* variant of OnReject that issues the fetch again
OnReject_Retry ==
    /\ errors' = IF view = "chart" THEN errors + 1 ELSE errors
    /\ fetches' = IF fetches < 2 THEN fetches + 1 ELSE fetches
    /\ pc' = IF fetches < 2 THEN "fetching" ELSE "failed"
    /\ UNCHANGED <<view, engine, mounted, doc, data, trades, equity, width>>
\* the chain rejects: the chart view's .catch calls console.error, the trade
\* views have no .catch and the rejection goes unhandled
OnReject ==
    /\ errors' = IF view = "chart" THEN errors + 1 ELSE errors
    /\ pc' = "failed"
    /\ UNCHANGED <<view, engine, mounted, doc, data, trades, equity,
                   width, fetches>>

FetchReject == pc = "fetching" /\ OnReject
TextReject == pc = "reading" /\ OnReject

\* .then((text) => ...) of the chart view; the callback does not look at
\* whether the component is still mounted
LoadChart(rows) ==
    /\ doc' = rows
    /\ data' = parseCSV(engine, rows)
    /\ pc' = "done"
    /\ UNCHANGED <<view, engine, mounted, trades, equity, width,
                   fetches, errors>>

\* variant of LoadTrades that calls setEquity before setTrades
LoadTrades_EquityFirst(rows) ==
    /\ doc' = rows
    /\ \/ /\ trades' = TradeRows(view, rows)
          /\ equity' = EquityRows(TradeRows(view, rows), EquityDigits(view))
          /\ pc' = "done"
       \/ /\ equity' = EquityRows(TradeRows(view, rows), EquityDigits(view))
          /\ trades' = trades
          /\ pc' = "settingEquity"
    /\ UNCHANGED <<view, engine, mounted, data, width, fetches, errors>>
\* .then((text) => ...) of a trade view: setTrades(rows), then
\* setEquity(equityRows).  React either batches the two setters into one
\* render (automatic batching) or renders after each (a promise callback
\* under legacy rendering), which leaves a render between the two.
LoadTrades(rows) ==
    /\ doc' = rows
    /\ trades' = TradeRows(view, rows)
    /\ \/ /\ equity' = EquityRows(TradeRows(view, rows), EquityDigits(view))
          /\ pc' = "done"
       \/ /\ equity' = equity
          /\ pc' = "settingEquity"
    /\ UNCHANGED <<view, engine, mounted, data, width, fetches, errors>>

\* setEquity(equityRows), rest of the same callback
SetEquity ==
    /\ pc = "settingEquity"
    /\ equity' = EquityRows(TradeRows(view, doc), EquityDigits(view))
    /\ pc' = "done"
    /\ UNCHANGED <<view, engine, mounted, doc, data, trades, width,
                   fetches, errors>>

\* window "resize" while the listener is registered: setWidth when the chart
\* wrapper is on screen
Widths == {640, 800}
Resize(w) ==
    /\ mounted /\ view = "chart"
    /\ width' = IF data # <<>> THEN w ELSE width
    /\ UNCHANGED <<view, engine, pc, mounted, doc, data, trades, equity,
                   fetches, errors>>

\* res.text() resolved with the document
TextResolveChart ==
    pc = "reading" /\ view = "chart" /\ \E rows \in BarDocs : LoadChart(rows)
TextResolveTrades ==
    pc = "reading" /\ view \in TradeViews /\ \E rows \in TradeDocs : LoadTrades(rows)
TextResolveLong ==
    pc = "reading" /\ view = "chart" /\ \E n \in 1..MaxBars : LoadChart(LongDoc(n))

\* the load of one component; the resize listener touches width alone and is
\* left to SpecWindow
Next ==
    \/ Mount
    \/ Unmount
    \/ FetchResolve
    \/ FetchReject
    \/ TextReject
    \/ TextResolveChart
    \/ TextResolveTrades
    \/ SetEquity

Spec == Init /\ [][Next]_vars

\* the chart view alone, fed documents of up to MaxBars well-formed bars
InitWindow == Init /\ view = "chart" /\ engine = "strict"
NextWindow ==
    \/ Mount
    \/ Unmount
    \/ FetchResolve
    \/ TextResolveLong
    \/ \E w \in Widths : Resize(w)
SpecWindow == InitWindow /\ [][NextWindow]_vars

TypeOK ==
    /\ view \in Views /\ engine \in Engines
    /\ pc \in {"idle", "fetching", "reading", "settingEquity", "done", "failed"}
    /\ mounted \in BOOLEAN
    /\ fetches \in 0..1 /\ errors \in 0..1

\* ------------------------------------------------------- shapes of field text
\* the whole text is a decimal literal: an optional sign, digits with at most
\* one point, at least one digit
IsFloatText(s) ==
    LET b == IF s # <<>> /\ s[1] \in {"-", "+"} THEN Tail(s) ELSE s
    IN  /\ \A i \in 1..Len(b) : b[i] \in Digit \cup {"."}
        /\ Cardinality({i \in 1..Len(b) : b[i] = "."}) <= 1
        /\ \E i \in 1..Len(b) : b[i] \in Digit
IsIntText(s) ==
    LET b == IF s # <<>> /\ s[1] \in {"-", "+"} THEN Tail(s) ELSE s
    IN  b # <<>> /\ \A i \in 1..Len(b) : b[i] \in Digit
HasFloatPrefix(s) == \E k \in 1..Len(s) : IsFloatText(SubSeq(s, 1, k))
HasIntPrefix(s) == \E k \in 1..Len(s) : IsIntText(SubSeq(s, 1, k))
DateFields(s) == [y |-> DigitsValue(s, 1, 4), m |-> DigitsValue(s, 6, 2),
                  d |-> DigitsValue(s, 9, 2)]
IsCalendarDate(s) ==
    /\ IsIsoDateShape(s)
    /\ DateFields(s).m \in 1..12
    /\ DateFields(s).d \in 1..DaysInMonth(DateFields(s).y, DateFields(s).m)
IsAcceptedDate(e, s) ==
    /\ IsIsoDateShape(s)
    /\ DateFields(s).m \in 1..12
    /\ DateFields(s).d \in 1..31
    /\ e = "strict" => IsCalendarDate(s)

CountIn(seq, P(_)) == Cardinality({i \in 1..Len(seq) : P(seq[i])})
Range(seq) == {seq[i] : i \in 1..Len(seq)}
Abs(n) == IF n < 0 THEN -n ELSE n

ChartDone == pc = "done" /\ view = "chart"
TradesDone == pc = "done" /\ view \in TradeViews

\* sum of the pnl of trades[1..i], as a plain integer of 1/Scale units
RECURSIVE PrefixSum(_, _)
PrefixSum(ts, i) == IF i = 0 THEN 0 ELSE PrefixSum(ts, i - 1) + ts[i].pnl.v
PrefixHasNaN(ts, i) == \E k \in 1..i : ts[k].pnl.nan
\* e is the multiple of 10^-d nearest to sum
IsRounded(e, sum, d) == e % Pow10(7 - d) = 0 /\ 2 * Abs(e - sum) <= Pow10(7 - d)
\* one point per row, in input order
SameRowsInOrder ==
    /\ Len(trades) = Len(doc) /\ Len(equity) = Len(doc)
    /\ \A i \in 1..Len(doc) :
          /\ trades[i].entryDate = doc[i].EntryDate
          /\ equity[i].date = doc[i].EntryDate
          /\ equity[i].pnl = trades[i].pnl

\* C1 as stated: in both trade views the equity sequence has one point per
\* parsed row, in input order, and the i-th equity equals the sum of
\* pnl[0..i] exactly.
C1_EquityIsExactSum ==
    TradesDone =>
        /\ SameRowsInOrder
        /\ \A i \in 1..Len(equity) :
              equity[i].equity = IF PrefixHasNaN(trades, i) THEN NaN
                                 ELSE Num(PrefixSum(trades, i))

\* C1 amended: one point per parsed row, in input order, and the i-th equity
\* is the unrounded running sum of pnl[0..i] rounded to the view's digits
\* (2 in tradesA, 6 in tradesB); not-a-number when a pnl so far is.
C1_EquityIsRoundedSum ==
    TradesDone =>
        /\ SameRowsInOrder
        /\ \A i \in 1..Len(equity) :
              IF PrefixHasNaN(trades, i) THEN equity[i].equity.nan
              ELSE /\ ~equity[i].equity.nan
                   /\ IsRounded(equity[i].equity.v, PrefixSum(trades, i),
                                EquityDigits(view))

\* pnl [10, -3, 5] gives equity [10, 7, 12]
C1_Witness ==
    /\ TradesDone /\ Len(doc) = 3
    /\ doc[1].PnL = <<"1", "0">> /\ doc[2].PnL = <<"-", "3">> /\ doc[3].PnL = <<"5">>
    /\ equity[1].equity = Num(10 * Scale)
    /\ equity[2].equity = Num(7 * Scale)
    /\ equity[3].equity = Num(12 * Scale)

\* the records of data are exactly the bars of the rows of doc that satisfy P
ExactlyRows(P(_)) ==
    LET bar(d) == ToBar(engine, d)
        expected == MapSeq(bar, SelectSeq(doc, P))
    IN  /\ Len(data) = Len(expected)
        /\ \A b \in Range(data) \cup Range(expected) :
              LET isB(r) == r = b
              IN  CountIn(data, isB) = CountIn(expected, isB)

WellFormedRow(d) ==
    /\ IsCalendarDate(d.Date)
    /\ IsFloatText(d.Open) /\ IsFloatText(d.High)
    /\ IsFloatText(d.Low) /\ IsFloatText(d.Close)
    /\ IsIntText(d.Volume)
ConvertibleRow(d) ==
    /\ IsAcceptedDate(engine, d.Date)
    /\ HasFloatPrefix(TrimLeft(d.Open)) /\ HasFloatPrefix(TrimLeft(d.High))
    /\ HasFloatPrefix(TrimLeft(d.Low)) /\ HasFloatPrefix(TrimLeft(d.Close))
    /\ HasIntPrefix(TrimLeft(d.Volume))

\* C2 as stated: parseCSV returns exactly the rows whose six fields are
\* present and well-formed (a real calendar date, four floats, an integer).
C2_ExactlyWellFormedRows == ChartDone => ExactlyRows(WellFormedRow)

\* C2 amended: parseCSV returns exactly the rows whose six fields are
\* non-empty and convert: Date is accepted by new Date, Open/High/Low/Close
\* begin with a decimal number and Volume begins with an integer (text after
\* the numeric prefix is ignored).
C2_ExactlyConvertibleRows == ChartDone => ExactlyRows(ConvertibleRow)

\* a row with empty Volume is dropped next to a row whose Low is "12abc",
\* which is kept with low = 12
C2_Witness ==
    /\ ChartDone /\ Len(doc) = 2 /\ Len(data) = 1
    /\ doc[1].Volume = <<>> /\ doc[2].Low = T12abc
    /\ data[1].low = Num(12 * Scale)

\* C3: the sequence returned by parseCSV is ascending by timestamp, and
\* records with equal timestamps keep their relative input order.
C3_SortedAndStable ==
    ChartDone =>
        LET bar(d) == ToBar(engine, d)
            kept(b) == b \in Range(data)
            input == SelectSeq(MapSeq(bar, doc), kept)
        IN  /\ \A i \in 1..(Len(data) - 1) :
                  data[i].date.time.v <= data[i + 1].date.time.v
            /\ \A t \in {b.date.time : b \in Range(data)} :
                  LET at(b) == b.date.time = t
                  IN  SelectSeq(data, at) = SelectSeq(input, at)

\* a later day first, then two different bars of the same earlier day
C3_Witness ==
    /\ ChartDone /\ Len(doc) = 3 /\ Len(data) = 3
    /\ doc[1].Date = D2 /\ doc[2].Date = D1 /\ doc[3].Date = D1
    /\ doc[2].Close # doc[3].Close
    /\ data[1].close = parseFloat(doc[2].Close)
    /\ data[2].close = parseFloat(doc[3].Close)
    /\ data[3].date.time.v > data[2].date.time.v

\* C4 as stated: once the view is torn down no state update is applied,
\* whenever the fetch completes.
C4_NoUpdateAfterTeardown ==
    [][~mounted => (data' = data /\ trades' = trades /\ equity' = equity)]_vars

\* C5 as stated: in every view a failed load has been reported to the log.
C5_FailureIsLogged == pc = "failed" => errors >= 1

\* C6: after a failed fetch no second fetch is issued, data / trades /
\* equity stay empty, the load stays failed and the mounted view shows the
\* loading state, in every later state.
C6_FailedLoadIsTerminal ==
    [][/\ pc = "failed" => pc' = "failed" /\ fetches' = fetches
       /\ pc' = "failed" =>
            /\ fetches' = 1
            /\ data' = <<>> /\ trades' = <<>> /\ equity' = <<>>
            /\ mounted' => Screen'.kind = "loading"]_vars

C6_Witness == pc = "failed" /\ mounted /\ Screen.kind = "loading" /\ fetches = 1

\* C7: a trade view evaluates the summary only when trades is non-empty and
\* equity has the length of trades; in every other render it shows loading.
C7_SummaryOnlyOnTrades ==
    (mounted /\ view \in TradeViews) =>
        /\ Screen.kind \in {"summary", "loading"}
        /\ Screen.kind = "summary" =>
              /\ Len(trades) > 0 /\ Len(equity) = Len(trades)
              /\ Screen.totalTrades > 0 /\ ~Screen.winRate.nan

\* the render between setTrades and setEquity: trades set, equity still empty
C7_Witness ==
    /\ mounted /\ pc = "settingEquity"
    /\ trades # <<>> /\ equity = <<>> /\ Screen.kind = "loading"

\* text that Number() does not read as a number
IsNumberText(s) == IsFloatText(TrimRight(TrimLeft(s)))
IsBlank(s) == TrimLeft(s) = <<>>
\* rows kept, equity not-a-number exactly from the first row whose pnl text
\* satisfies Bad, the rounded running sum before it
SentinelFrom(Bad(_)) ==
    /\ SameRowsInOrder
    /\ \A j \in 1..Len(equity) :
          IF \E k \in 1..j : Bad(doc[k].PnL) THEN equity[j].equity.nan
          ELSE /\ ~equity[j].equity.nan
               /\ IsRounded(equity[j].equity.v, PrefixSum(trades, j),
                            EquityDigits(view))

\* C8 as stated: a pnl text that is not a number, the empty field included,
\* keeps its row and makes equity not-a-number from that row on.
C8_SentinelFromNonNumber ==
    LET bad(s) == ~IsNumberText(s)
    IN  TradesDone => SentinelFrom(bad)

\* C8 amended: a pnl text that is neither blank nor a number keeps its row
\* and makes equity not-a-number from that row on; an empty pnl field is
\* coerced to 0, and equity before the first such row is the rounded sum.
C8_SentinelFromNonBlankNonNumber ==
    LET bad(s) == ~IsBlank(s) /\ ~IsNumberText(s)
    IN  TradesDone => SentinelFrom(bad)

\* pnl texts "", "abc", "5": equity 0, NaN, NaN
C8_Witness ==
    /\ TradesDone /\ Len(doc) = 3
    /\ doc[1].PnL = <<>> /\ doc[2].PnL = Junk /\ doc[3].PnL = <<"5">>
    /\ equity[1].equity = Num(0)
    /\ equity[2].equity.nan /\ equity[3].equity.nan

\* C9: the initial window of n >= 1 ordered bars is
\* [x(bar[n - min(150, n)]), x(bar[n - 1])] and holds exactly min(150, n) bars.
C9_WindowIsLastBars ==
    Screen.kind = "chart" =>
        LET n == Len(data)
            cd == xScaleProvider(data)
            k == IF n > DisplayCount THEN DisplayCount ELSE n
            lo == Screen.xExtents[1]
            hi == Screen.xExtents[2]
        IN  /\ lo = xAccessor(cd[n - k + 1])
            /\ hi = xAccessor(cd[n])
            /\ {i \in 1..n : lo <= xAccessor(cd[i]) /\ xAccessor(cd[i]) <= hi}
                  = (n - k + 1)..n

\* 200 bars: the window is bars 50..199
C9_Witness ==
    /\ Screen.kind = "chart" /\ Len(data) = 200
    /\ Screen.xExtents = <<50, 199>>

\* C10: winRate is 100 * (rows with pnl > 0) / (rows), rounded to 2 decimals;
\* rows with pnl = 0, pnl < 0 or not-a-number pnl count as rows, not as wins.
C10_WinRate ==
    Screen.kind = "summary" =>
        LET n == Len(trades)
            w == Cardinality({i \in 1..n : ~trades[i].pnl.nan /\ trades[i].pnl.v > 0})
        IN  /\ Screen.totalTrades = n
            /\ ~Screen.winRate.nan
            /\ 2 * Abs(Screen.winRate.units * n - w * 10000) <= n

\* pnl [10, -3, 5, -1] gives 50.00
C10_Witness ==
    /\ Screen.kind = "summary" /\ Len(doc) = 4
    /\ doc[1].PnL = <<"1", "0">> /\ doc[2].PnL = <<"-", "3">>
    /\ doc[3].PnL = <<"5">> /\ doc[4].PnL = <<"-", "1">>
    /\ Screen.winRate.units = 5000
====
